---------------------------- MODULE Spec2Model ----------------------------
(***************************************************************************)
(* Model of the two zustand stores of the profile browser and of the list  *)
(* derivation that reads them:                                             *)
(*   useProfileStore  (src/stores/useProfileStore.tsx)                     *)
(*   useUserStore     (src/TECHNICAL_OVERVIEW_README.md, lines 205-244)    *)
(*   filteredProfiles (src/components/ProfileList.tsx, lines 86-94)        *)
(* JavaScript runs every store action to completion, so each synchronous   *)
(* action is one step; fetchProfiles is split at its single await.         *)
(***************************************************************************)
EXTENDS Integers, Sequences, FiniteSets, TLC

VARIABLES profiles, isLoading, error,   \* useProfileStore state
          likes, dislikes,              \* useUserStore state
          fetch,                        \* per call slot: position of fetchProfiles
          lastOp                        \* history: the operation of the last step

vars == <<profiles, isLoading, error, likes, dislikes, fetch, lastOp>>

---------------------------------------------------------------------------
(* Bounds and value domains *)

MaxLong == 3       \* longest list where lists are the only large input
MaxShort == 2      \* longest list where every operation is enabled
MaxCalls == 2      \* fetchProfiles calls that may overlap
MaxScreen == 1     \* longest list where both stores and the screen act
MaxBusy == 1       \* fetchProfiles calls in flight where both stores act

Ids == {"A", "B"}
UserIds == {"A", "B", "C"}
Names == {"X", "Y"}

Calls == 1..MaxCalls

\* JavaScript null and undefined, kept apart from every message string
Null == "null"
Undefined == "undefined"
Messages == {Undefined, "", "Server error"}

Profile == [id : Ids, name : Names]

ListsUpTo(n) == UNION {[1..k -> Profile] : k \in 0..n}

\* Partial<Profile>: any subset of the fields, each with a value of its type
Updates ==
    {[f \in {} |-> "X"]}
    \cup {[id |-> i] : i \in Ids}
    \cup {[name |-> n] : n \in Names}
    \cup {[id |-> i, name |-> n] : i \in Ids, n \in Names}

---------------------------------------------------------------------------
(* JavaScript helpers *)

\* Array.prototype.includes
RECURSIVE includes(_, _)
includes(arr, x) ==
    IF arr = <<>> THEN FALSE
    ELSE IF Head(arr) = x THEN TRUE
    ELSE includes(Tail(arr), x)

\* arr.filter((e) => e !== x)
RECURSIVE filterNot(_, _)
filterNot(arr, x) ==
    IF arr = <<>> THEN <<>>
    ELSE IF Head(arr) # x THEN <<Head(arr)>> \o filterNot(Tail(arr), x)
    ELSE filterNot(Tail(arr), x)

\* Object spread { ...a, ...b }: b's fields override a's
Spread(a, b) ==
    [f \in (DOMAIN a) \cup (DOMAIN b) |-> IF f \in DOMAIN b THEN b[f] ELSE a[f]]

\* zustand set(partial): shallow merge of the partial state into the state
set(state, partial) == Spread(state, partial)

\* x || fallback
Falsy(x) == x \in {Undefined, Null, ""}
OrElse(x, fallback) == IF Falsy(x) THEN fallback ELSE x

---------------------------------------------------------------------------
(* useProfileStore *)

ProfileState == [profiles |-> profiles, isLoading |-> isLoading, error |-> error]

\* variant: an existing key keeps its first value
MapSetKeepFirst(entries, k, v) ==
    IF \E i \in 1..Len(entries) : entries[i][1] = k
    THEN entries
    ELSE Append(entries, <<k, v>>)

\* Map.prototype.set on a Map kept as its entries in insertion order
MapSet(entries, k, v) ==
    IF \E i \in 1..Len(entries) : entries[i][1] = k
    THEN [i \in 1..Len(entries) |->
            IF entries[i][1] = k THEN <<k, v>> ELSE entries[i]]
    ELSE Append(entries, <<k, v>>)

\* new Map(iterable of [key, value]): set each pair in order
RECURSIVE NewMap(_, _)
NewMap(entries, pairs) ==
    IF pairs = <<>> THEN entries
    ELSE NewMap(MapSet(entries, Head(pairs)[1], Head(pairs)[2]), Tail(pairs))

\* variant: the Map's values are listed in reverse insertion order
uniqueProfilesReversed(data) ==
    LET pairs == [i \in 1..Len(data) |-> <<data[i].id, data[i]>>]
        entries == NewMap(<<>>, pairs)
    IN  [i \in 1..Len(entries) |-> entries[Len(entries) + 1 - i][2]]

\* Array.from(new Map(data.map((profile) => [profile.id, profile])).values())
uniqueProfiles(data) ==
    LET pairs == [i \in 1..Len(data) |-> <<data[i].id, data[i]>>]
        entries == NewMap(<<>>, pairs)
    IN  [i \in 1..Len(entries) |-> entries[i][2]]

\* variant: the list is emptied while loading
fetchProfilesBeginClearsList == [isLoading |-> TRUE, error |-> Null, profiles |-> <<>>]

\* set({ isLoading: true, error: null })
fetchProfilesBegin == [isLoading |-> TRUE, error |-> Null]

\* variant: the payload is stored as received
fetchProfilesResolveRaw(data) ==
    [profiles |-> data, isLoading |-> FALSE]

\* variant: the payload is merged into the list held, whose records win
fetchProfilesResolveMerge(data) ==
    [profiles |-> uniqueProfiles(data \o profiles), isLoading |-> FALSE]

\* variant: the success write stores the list and leaves isLoading as it is
fetchProfilesResolveKeepsLoading(data) ==
    [profiles |-> uniqueProfiles(data)]

\* set({ profiles: uniqueProfiles, isLoading: false })
fetchProfilesResolve(data) ==
    [profiles |-> uniqueProfiles(data), isLoading |-> FALSE]

\* set({ error: error.response?.data?.message || "...", isLoading: false })
Fallback == "Failed to fetch profiles"

\* variant: the message is stored without the fallback
fetchProfilesRejectNoFallback(message) ==
    [error |-> message, isLoading |-> FALSE]

\* variant: ?? in place of ||, so an empty message is kept
fetchProfilesRejectNullish(message) ==
    [error |-> IF message \in {Undefined, Null} THEN Fallback ELSE message,
     isLoading |-> FALSE]

\* variant: the catch records the error and leaves isLoading as it is
fetchProfilesRejectKeepsLoading(message) ==
    [error |-> OrElse(message, Fallback)]

fetchProfilesReject(message) ==
    [error |-> OrElse(message, Fallback), isLoading |-> FALSE]

\* variant: the list is deduplicated as a fetched payload is
setProfilesUnique(list) == [profiles |-> uniqueProfiles(list)]

\* where a call stands once its try block has run to its end
afterTry == "idle"

\* variant: the catch block issues the request again
afterCatchRetry == "awaiting"

\* where a call stands once its catch block has run to its end
afterCatch == "idle"

\* set(() => ({ profiles }))
setProfiles(list) == [profiles |-> list]

\* variant: the id test is missing, every profile is patched
updateProfileAll(state, id, update) ==
    [profiles |-> [i \in 1..Len(state.profiles) |->
                     Spread(state.profiles[i], update)]]

\* variant: an id that matches nothing is inserted
updateProfileUpsert(state, id, update) ==
    [profiles |->
        IF \E i \in 1..Len(state.profiles) : state.profiles[i].id = id
        THEN [i \in 1..Len(state.profiles) |->
                IF state.profiles[i].id = id
                THEN Spread(state.profiles[i], update)
                ELSE state.profiles[i]]
        ELSE Append(state.profiles, Spread([id |-> id, name |-> "X"], update))]

\* variant: a patch for an id that is not in the list is reported as an error
updateProfileReportsMissing(state, id, update) ==
    IF \E i \in DOMAIN state.profiles : state.profiles[i].id = id
    THEN [profiles |->
            [i \in DOMAIN state.profiles |->
                IF state.profiles[i].id = id
                THEN Spread(state.profiles[i], update)
                ELSE state.profiles[i]]]
    ELSE [error |-> "Profile not found"]

\* set((state) => ({ profiles: state.profiles.map(...) }))
updateProfile(state, id, update) ==
    [profiles |-> [i \in 1..Len(state.profiles) |->
                     IF state.profiles[i].id = id
                     THEN Spread(state.profiles[i], update)
                     ELSE state.profiles[i]]]

---------------------------------------------------------------------------
(* useUserStore *)

UserState == [likes |-> likes, dislikes |-> dislikes]

\* variant: the dislike is not withdrawn
addLikeKeepDislike(state, id) ==
    [likes |-> IF includes(state.likes, id) THEN state.likes
               ELSE Append(state.likes, id),
     dislikes |-> state.dislikes]

\* variant: no includes() test before appending
addLikeAlways(state, id) ==
    [likes |-> Append(state.likes, id),
     dislikes |-> filterNot(state.dislikes, id)]

\* variant: liking a liked id withdraws the like
addLikeToggle(state, id) ==
    [likes |-> IF includes(state.likes, id) THEN filterNot(state.likes, id)
               ELSE Append(state.likes, id),
     dislikes |-> filterNot(state.dislikes, id)]

addLike(state, id) ==
    [likes |-> IF includes(state.likes, id) THEN state.likes
               ELSE Append(state.likes, id),
     dislikes |-> filterNot(state.dislikes, id)]

\* variant: the id is withdrawn from both arrays
removeLikeBoth(state, id) ==
    [likes |-> filterNot(state.likes, id),
     dislikes |-> filterNot(state.dislikes, id)]

\* variant: the filter test is === where the code has !==
removeLikeKeepOnly(state, id) ==
    [likes |-> SelectSeq(state.likes, LAMBDA x : x = id)]

removeLike(state, id) == [likes |-> filterNot(state.likes, id)]

\* variant: the like is not withdrawn
addDislikeKeepLike(state, id) ==
    [dislikes |-> IF includes(state.dislikes, id) THEN state.dislikes
                  ELSE Append(state.dislikes, id),
     likes |-> state.likes]

\* variant: every like is withdrawn, not only id's
addDislikeClearLikes(state, id) ==
    [dislikes |-> IF includes(state.dislikes, id) THEN state.dislikes
                  ELSE Append(state.dislikes, id),
     likes |-> <<>>]

\* variant: the id is appended without the includes test
addDislikeAlways(state, id) ==
    [likes |-> filterNot(state.likes, id),
     dislikes |-> Append(state.dislikes, id)]

addDislike(state, id) ==
    [dislikes |-> IF includes(state.dislikes, id) THEN state.dislikes
                  ELSE Append(state.dislikes, id),
     likes |-> filterNot(state.likes, id)]

removeDislike(state, id) == [dislikes |-> filterNot(state.dislikes, id)]

---------------------------------------------------------------------------
(* ProfileList: the list handed to the FlatList *)

RECURSIVE filterVisible(_, _, _)
filterVisible(list, l, d) ==
    IF list = <<>> THEN <<>>
    ELSE IF ~includes(l, Head(list).id) /\ ~includes(d, Head(list).id)
         THEN <<Head(list)>> \o filterVisible(Tail(list), l, d)
         ELSE filterVisible(Tail(list), l, d)

\* variant: only the likes are filtered out
filteredProfilesLikesOnly(p, l, d) ==
    IF Len(p) # 0 THEN filterVisible(p, l, <<>>) ELSE p

\* profiles.length ? profiles.filter(...) : profiles
filteredProfiles(p, l, d) ==
    IF Len(p) # 0 THEN filterVisible(p, l, d) ELSE p

---------------------------------------------------------------------------
(* State machine *)

NoOp == [op |-> "init", id |-> "-", call |-> 0, data |-> <<>>,
         update |-> <<>>, message |-> "-", prevOp |-> "-", prevId |-> "-"]

\* a useProfileStore operation
Op(name, id) == [NoOp EXCEPT !.op = name, !.id = id]

\* a useUserStore operation, with the useUserStore operation right before it
UserOps == {"addLike", "removeLike", "addDislike", "removeDislike"}

UserOp(name, id) ==
    [NoOp EXCEPT !.op = name, !.id = id,
                 !.prevOp = IF lastOp.op \in UserOps THEN lastOp.op ELSE "-",
                 !.prevId = IF lastOp.op \in UserOps THEN lastOp.id ELSE "-"]

Init ==
    /\ profiles = <<>>
    /\ isLoading = FALSE
    /\ error = Null
    /\ likes = <<>>
    /\ dislikes = <<>>
    /\ fetch = [c \in Calls |-> "idle"]
    /\ lastOp = NoOp

ApplyProfile(partial) ==
    LET s == set(ProfileState, partial)
    IN  /\ profiles' = s.profiles
        /\ isLoading' = s.isLoading
        /\ error' = s.error

ApplyUser(partial) ==
    LET s == set(UserState, partial)
    IN  /\ likes' = s.likes
        /\ dislikes' = s.dislikes

\* fetchProfiles up to its await: the request of call c is issued
FetchStart(c) ==
    /\ fetch[c] = "idle"
    /\ ApplyProfile(fetchProfilesBegin)
    /\ fetch' = [fetch EXCEPT ![c] = "awaiting"]
    /\ lastOp' = [Op("fetchStart", "-") EXCEPT !.call = c]
    /\ UNCHANGED <<likes, dislikes>>

\* the request of call c resolves with response.data.data = data
FetchSuccess(c, data) ==
    /\ fetch[c] = "awaiting"
    /\ ApplyProfile(fetchProfilesResolve(data))
    /\ fetch' = [fetch EXCEPT ![c] = afterTry]
    /\ lastOp' = [Op("fetchSuccess", "-") EXCEPT !.call = c, !.data = data]
    /\ UNCHANGED <<likes, dislikes>>

\* the request of call c rejects; message is error.response?.data?.message
FetchFailure(c, message) ==
    /\ fetch[c] = "awaiting"
    /\ ApplyProfile(fetchProfilesReject(message))
    /\ fetch' = [fetch EXCEPT ![c] = afterCatch]
    /\ lastOp' = [Op("fetchFailure", "-") EXCEPT !.call = c, !.message = message]
    /\ UNCHANGED <<likes, dislikes>>

SetProfiles(list) ==
    /\ ApplyProfile(setProfiles(list))
    /\ lastOp' = [Op("setProfiles", "-") EXCEPT !.data = list]
    /\ UNCHANGED <<likes, dislikes, fetch>>

\* variant: the patch waits until no request is awaiting its response
UpdateProfileWhenIdle(id, update) ==
    /\ \A c \in Calls : fetch[c] # "awaiting"
    /\ ApplyProfile(updateProfile(ProfileState, id, update))
    /\ lastOp' = [Op("updateProfile", id) EXCEPT !.update = update]
    /\ UNCHANGED <<likes, dislikes, fetch>>

UpdateProfile(id, update) ==
    /\ ApplyProfile(updateProfile(ProfileState, id, update))
    /\ lastOp' = [Op("updateProfile", id) EXCEPT !.update = update]
    /\ UNCHANGED <<likes, dislikes, fetch>>

\* variant: a single store in which liking also takes the profile off the list
AddLikeDropsProfile(id) ==
    /\ ApplyUser(addLike(UserState, id))
    /\ profiles' = SelectSeq(profiles, LAMBDA p : p.id # id)
    /\ lastOp' = UserOp("addLike", id)
    /\ UNCHANGED <<isLoading, error, fetch>>

AddLike(id) ==
    /\ ApplyUser(addLike(UserState, id))
    /\ lastOp' = UserOp("addLike", id)
    /\ UNCHANGED <<profiles, isLoading, error, fetch>>

RemoveLike(id) ==
    /\ ApplyUser(removeLike(UserState, id))
    /\ lastOp' = UserOp("removeLike", id)
    /\ UNCHANGED <<profiles, isLoading, error, fetch>>

AddDislike(id) ==
    /\ ApplyUser(addDislike(UserState, id))
    /\ lastOp' = UserOp("addDislike", id)
    /\ UNCHANGED <<profiles, isLoading, error, fetch>>

RemoveDislike(id) ==
    /\ ApplyUser(removeDislike(UserState, id))
    /\ lastOp' = UserOp("removeDislike", id)
    /\ UNCHANGED <<profiles, isLoading, error, fetch>>

\* useUserStore alone
NextUser ==
    \/ \E id \in UserIds : AddLike(id)
    \/ \E id \in UserIds : RemoveLike(id)
    \/ \E id \in UserIds : AddDislike(id)
    \/ \E id \in UserIds : RemoveDislike(id)

SpecUser == Init /\ [][NextUser]_vars

\* fetchProfiles alone, with the longer payloads
NextFetch ==
    \/ \E c \in Calls : FetchStart(c)
    \/ \E c \in Calls, data \in ListsUpTo(MaxLong) : FetchSuccess(c, data)
    \/ \E c \in Calls, message \in Messages : FetchFailure(c, message)

SpecFetch == Init /\ [][NextFetch]_vars

\* fetchProfiles alone with short payloads, every issued request eventually
\* settling: it resolves or it rejects
NextSettle ==
    \/ \E c \in Calls : FetchStart(c)
    \/ \E c \in Calls, data \in ListsUpTo(MaxScreen) : FetchSuccess(c, data)
    \/ \E c \in Calls, message \in Messages : FetchFailure(c, message)

Settle(c) ==
    \/ \E data \in ListsUpTo(MaxScreen) : FetchSuccess(c, data)
    \/ \E message \in Messages : FetchFailure(c, message)

SpecSettle ==
    Init /\ [][NextSettle]_vars /\ \A c \in Calls : WF_vars(Settle(c))

\* useProfileStore alone
NextProfile ==
    \/ \E c \in Calls : FetchStart(c)
    \/ \E c \in Calls, data \in ListsUpTo(MaxShort) : FetchSuccess(c, data)
    \/ \E c \in Calls, message \in Messages : FetchFailure(c, message)
    \/ \E list \in ListsUpTo(MaxShort) : SetProfiles(list)
    \/ \E id \in Ids, update \in Updates : UpdateProfile(id, update)

SpecProfile == Init /\ [][NextProfile]_vars

\* what ProfileList renders: an injected list filtered by the preferences
NextView ==
    \/ \E list \in ListsUpTo(MaxLong) : SetProfiles(list)
    \/ \E id \in Ids : AddLike(id)
    \/ \E id \in Ids : RemoveLike(id)
    \/ \E id \in Ids : AddDislike(id)
    \/ \E id \in Ids : RemoveDislike(id)

SpecView == Init /\ [][NextView]_vars

\* the operations the ProfileList screen can trigger (handleLike,
\* handleDislike, fetchProfiles), with setProfiles and updateProfile
NextScreen ==
    \/ \E c \in Calls : FetchStart(c)
    \/ \E c \in Calls, data \in ListsUpTo(MaxScreen) : FetchSuccess(c, data)
    \/ \E c \in Calls, message \in Messages : FetchFailure(c, message)
    \/ \E list \in ListsUpTo(MaxScreen) : SetProfiles(list)
    \/ \E id \in Ids, update \in Updates : UpdateProfile(id, update)
    \/ \E id \in Ids : AddLike(id)
    \/ \E id \in Ids : AddDislike(id)

SpecScreen == Init /\ [][NextScreen]_vars

\* both stores with every operation
Next ==
    \/ \E c \in 1..MaxBusy : FetchStart(c)
    \/ \E c \in 1..MaxBusy, data \in ListsUpTo(MaxScreen) : FetchSuccess(c, data)
    \/ \E c \in 1..MaxBusy, message \in Messages : FetchFailure(c, message)
    \/ \E list \in ListsUpTo(MaxScreen) : SetProfiles(list)
    \/ \E id \in Ids, update \in Updates : UpdateProfile(id, update)
    \/ \E id \in Ids : AddLike(id)
    \/ \E id \in Ids : RemoveLike(id)
    \/ \E id \in Ids : AddDislike(id)
    \/ \E id \in Ids : RemoveDislike(id)

Spec == Init /\ [][Next]_vars

---------------------------------------------------------------------------
(* Properties *)

Range(seq) == {seq[i] : i \in DOMAIN seq}

IdsOf(list) == {list[i].id : i \in DOMAIN list}

FirstIndex(list, id) ==
    CHOOSE i \in DOMAIN list :
        list[i].id = id /\ \A j \in DOMAIN list : list[j].id = id => i <= j

LastIndex(list, id) ==
    CHOOSE i \in DOMAIN list :
        list[i].id = id /\ \A j \in DOMAIN list : list[j].id = id => j <= i

PAX == [id |-> "A", name |-> "X"]
PAY == [id |-> "A", name |-> "Y"]
PBX == [id |-> "B", name |-> "X"]
PBY == [id |-> "B", name |-> "Y"]

\* C1: in every state reachable by addLike, removeLike, addDislike and
\* removeDislike calls, no id is a member of both likes and dislikes.
C1_LikesDislikesDisjoint == Range(likes) \cap Range(dislikes) = {}

\* an id that was disliked has just been liked
C1_Witness ==
    /\ lastOp.op = "addLike" /\ lastOp.id = "A"
    /\ lastOp.prevOp = "addDislike" /\ lastOp.prevId = "A"
    /\ "A" \in Range(likes)
    /\ "B" \in Range(dislikes)

\* C2: the list handed to the rendering surface is exactly the sub-sequence
\* of profiles whose id is in neither likes nor dislikes, in the original
\* order; it is the empty list for an empty list and holds no liked or
\* disliked id.
C2_Hidden(p) == p.id \in Range(likes) \cup Range(dislikes)

C2_Shown(p) == ~C2_Hidden(p)

C2_ViewIsUnratedSubsequence ==
    LET view == filteredProfiles(profiles, likes, dislikes)
    IN  /\ view = SelectSeq(profiles, C2_Shown)
        /\ \A i \in DOMAIN view : ~C2_Hidden(view[i])
        /\ profiles = <<>> => view = <<>>

\* a three-element list of which the middle one is liked: [A, B, A] -> [A, A]
C2_Witness ==
    /\ profiles = <<PAX, PBX, PAY>>
    /\ likes = <<"B">>
    /\ dislikes = <<>>
    /\ filteredProfiles(profiles, likes, dislikes) = <<PAX, PAY>>

\* C3: after a successful fetchProfiles the list holds one record per
\* distinct id of the payload, in the order in which the ids were first
\* seen, each carrying the content of the last payload record with that id.
C3_DedupFirstPositionLastContent ==
    lastOp.op = "fetchSuccess" =>
        LET data == lastOp.data
        IN  /\ IdsOf(profiles) = IdsOf(data)
            /\ \A i, j \in DOMAIN profiles :
                   i < j => FirstIndex(data, profiles[i].id)
                              < FirstIndex(data, profiles[j].id)
            /\ \A i \in DOMAIN profiles :
                   profiles[i] = data[LastIndex(data, profiles[i].id)]

\* the example [A:X, B:Y, A:Z] -> [A:Z, B:Y], with Y standing for Z
C3_Witness ==
    /\ lastOp.op = "fetchSuccess"
    /\ lastOp.data = <<PAX, PBY, PAY>>
    /\ profiles = <<PAY, PBY>>

\* C4: the failure transition of fetchProfiles leaves profiles as they
\* were, sets error to a message that is neither null nor undefined, and
\* sets isLoading to false.
C4_FailureKeepsProfiles ==
    [][lastOp'.op = "fetchFailure" =>
          /\ profiles' = profiles
          /\ error' \notin {Null, Undefined}
          /\ isLoading' = FALSE]_vars

\* a failure without a message, with a non-empty list in the store
C4_Witness ==
    /\ lastOp.op = "fetchFailure"
    /\ lastOp.message = Undefined
    /\ Len(profiles) = 2
    /\ error = Fallback
    /\ isLoading = FALSE

\* C5 (as claimed): right after a successful fetchProfiles, isLoading is
\* false, error is null and profiles is the deduplicated payload, whatever
\* other calls did while this one was in flight.
C5_SuccessLeavesNoError ==
    lastOp.op = "fetchSuccess" =>
        /\ isLoading = FALSE
        /\ error = Null
        /\ profiles = uniqueProfiles(lastOp.data)

\* C6 (as claimed): updateProfile never changes the id of any profile.
C6_UpdateKeepsIds ==
    [][lastOp'.op = "updateProfile" =>
          /\ Len(profiles') = Len(profiles)
          /\ \A i \in DOMAIN profiles : profiles'[i].id = profiles[i].id]_vars

\* C7: updateProfile(id, update) keeps the length and order of the list,
\* leaves every profile with another id as it was, changes in a profile
\* with that id only the fields update names, and leaves isLoading and
\* error as they were.
C7_UpdateTouchesOnlyTarget ==
    [][lastOp'.op = "updateProfile" =>
          /\ Len(profiles') = Len(profiles)
          /\ isLoading' = isLoading
          /\ error' = error
          /\ \A i \in DOMAIN profiles :
                /\ profiles[i].id # lastOp'.id => profiles'[i] = profiles[i]
                /\ \A f \in DOMAIN profiles[i] :
                      f \notin DOMAIN lastOp'.update
                          => profiles'[i][f] = profiles[i][f]]_vars

\* A's name has been patched while a fetch was in flight; B:X is untouched
C7_Witness ==
    /\ lastOp.op = "updateProfile"
    /\ lastOp.id = "A"
    /\ lastOp.update = [name |-> "Y"]
    /\ profiles = <<PAY, PBX>>
    /\ isLoading = TRUE

\* C8: after addLike(id) the id is in likes and not in dislikes, after
\* addDislike(id) it is in dislikes and not in likes, whatever calls came
\* before.
C8_LastAddDecides ==
    /\ lastOp.op = "addLike" =>
           lastOp.id \in Range(likes) \ Range(dislikes)
    /\ lastOp.op = "addDislike" =>
           lastOp.id \in Range(dislikes) \ Range(likes)

\* addLike(A) then addDislike(A): likes = {}, dislikes = {A}
C8_Witness ==
    /\ lastOp.op = "addDislike" /\ lastOp.id = "A"
    /\ lastOp.prevOp = "addLike" /\ lastOp.prevId = "A"
    /\ likes = <<>>
    /\ dislikes = <<"A">>

\* C9: a preference operation called right after the same operation with
\* the same id changes neither likes nor dislikes.
C9_RepeatChangesNothing ==
    [][(/\ lastOp'.op \in UserOps
        /\ lastOp'.prevOp = lastOp'.op
        /\ lastOp'.prevId = lastOp'.id)
          => likes' = likes /\ dislikes' = dislikes]_vars

\* addLike(B) twice with A already liked: still two entries
C9_Witness ==
    /\ lastOp.op = "addLike" /\ lastOp.id = "B"
    /\ lastOp.prevOp = "addLike" /\ lastOp.prevId = "B"
    /\ likes = <<"A", "B">>

\* C10: addLike(id) puts id in likes, takes it out of dislikes and changes
\* the membership of no other id in either list; addDislike(id) likewise
\* with the lists exchanged.
C10_OthersKept ==
    \A o \in UserIds \ {lastOp'.id} :
        /\ o \in Range(likes') <=> o \in Range(likes)
        /\ o \in Range(dislikes') <=> o \in Range(dislikes)

C10_AddChangesOnlyItsId ==
    [][/\ lastOp'.op = "addLike" =>
            /\ lastOp'.id \in Range(likes') \ Range(dislikes')
            /\ C10_OthersKept
       /\ lastOp'.op = "addDislike" =>
            /\ lastOp'.id \in Range(dislikes') \ Range(likes')
            /\ C10_OthersKept]_vars

\* addDislike(A) with B liked and C disliked
C10_Witness ==
    /\ lastOp.op = "addDislike" /\ lastOp.id = "A"
    /\ "A" \in Range(dislikes)
    /\ "B" \in Range(likes)
    /\ "C" \in Range(dislikes)

\* C11: removeLike(id) takes id out of likes, leaves likes as it is when
\* id is not in it, and leaves dislikes and the other ids of likes (and
\* their order) as they were; removeDislike(id) likewise with the lists
\* exchanged.
C11_Without(arr, id) == SelectSeq(arr, LAMBDA x : x # id)

C11_RemoveChangesOnlyItsId ==
    [][/\ lastOp'.op = "removeLike" =>
            /\ likes' = C11_Without(likes, lastOp'.id)
            /\ lastOp'.id \notin Range(likes) => likes' = likes
            /\ dislikes' = dislikes
       /\ lastOp'.op = "removeDislike" =>
            /\ dislikes' = C11_Without(dislikes, lastOp'.id)
            /\ lastOp'.id \notin Range(dislikes) => dislikes' = dislikes
            /\ likes' = likes]_vars

\* removeLike(A) while A is disliked and B, C are liked
C11_Witness ==
    /\ lastOp.op = "removeLike" /\ lastOp.id = "A"
    /\ dislikes = <<"A">>
    /\ likes = <<"B", "C">>

\* C12: updateProfile with an id that matches no profile changes neither
\* profiles nor isLoading nor error.
C12_UnknownIdChangesNothing ==
    [][(lastOp'.op = "updateProfile" /\ lastOp'.id \notin IdsOf(profiles)) =>
          /\ profiles' = profiles
          /\ isLoading' = isLoading
          /\ error' = error]_vars

\* updateProfile(B, {name: Y}) on [A:X], with an error from a failed fetch
C12_Witness ==
    /\ lastOp.op = "updateProfile" /\ lastOp.id = "B"
    /\ lastOp.update = [name |-> "Y"]
    /\ profiles = <<PAX>>
    /\ error = Fallback

\* C13 (as claimed): once every started fetchProfiles call has resolved,
\* the state is the result of the call that resolved last: after a success
\* profiles is its deduplicated payload and error is null, after a failure
\* error is its message (or the fallback), and isLoading is false in both
\* cases.
C13_LastResolvedWins ==
    (\A c \in Calls : fetch[c] = "idle") =>
        /\ lastOp.op = "fetchSuccess" =>
              /\ profiles = uniqueProfiles(lastOp.data)
              /\ error = Null
              /\ isLoading = FALSE
        /\ lastOp.op = "fetchFailure" =>
              /\ error = OrElse(lastOp.message, Fallback)
              /\ isLoading = FALSE

\* C14 (as claimed): while at least one fetchProfiles call is awaiting its
\* response, isLoading is true.
C14_AwaitingImpliesLoading ==
    (\E c \in Calls : fetch[c] = "awaiting") => isLoading = TRUE

\* C15: deduplicating an already deduplicated list returns it unchanged:
\* a successful fetchProfiles whose payload is the list a successful
\* fetchProfiles has just stored leaves profiles as they are.
C15_DedupTwiceIsDedupOnce ==
    [][(/\ lastOp.op = "fetchSuccess"
        /\ lastOp'.op = "fetchSuccess"
        /\ lastOp'.data = profiles)
          => profiles' = profiles]_vars

\* call 1 stored [A:Y, B:X]; call 2 then delivered that very list
C15_Witness ==
    /\ lastOp.op = "fetchSuccess" /\ lastOp.call = 2
    /\ lastOp.data = <<PAY, PBX>>
    /\ profiles = <<PAY, PBX>>
    /\ \A c \in Calls : fetch[c] = "idle"

\* C16: right after a successful fetchProfiles the ids of the profiles in
\* the list are pairwise distinct, whatever duplicates the payload held.
C16_IdsDistinctAfterSuccess ==
    lastOp.op = "fetchSuccess" =>
        \A i, j \in DOMAIN profiles :
            i # j => profiles[i].id # profiles[j].id

\* a payload with the same id three times
C16_Witness ==
    /\ lastOp.op = "fetchSuccess"
    /\ lastOp.data = <<PAX, PAY, PAX>>
    /\ profiles = <<PAX>>

\* C17: setProfiles(list) makes profiles equal to list as given, duplicate
\* ids included, whatever the list was before, and leaves isLoading and
\* error as they were.
C17_SetProfilesStoresListAsGiven ==
    [][lastOp'.op = "setProfiles" =>
          /\ profiles' = lastOp'.data
          /\ isLoading' = isLoading
          /\ error' = error]_vars

\* a list with the id A twice, injected while a fetch is in flight
C17_Witness ==
    /\ lastOp.op = "setProfiles"
    /\ lastOp.data = <<PAX, PAY>>
    /\ profiles = <<PAX, PAY>>
    /\ isLoading = TRUE

\* C18: every fetchProfiles call issues one request and makes one terminal
\* write: a call starts awaiting only by being invoked, its success or
\* failure write happens only while it is awaiting and ends the call, and
\* a failed call does not go back to awaiting.
C18_Terminal == {"fetchSuccess", "fetchFailure"}

C18_OneRequestOneTerminalWrite ==
    [][\A c \in Calls :
          /\ (lastOp'.op \in C18_Terminal /\ lastOp'.call = c) =>
                 fetch[c] = "awaiting" /\ fetch'[c] = "idle"
          /\ (fetch[c] = "idle" /\ fetch'[c] = "awaiting") =>
                 lastOp'.op = "fetchStart" /\ lastOp'.call = c
          /\ (fetch[c] = "awaiting" /\ fetch'[c] = "idle") =>
                 lastOp'.op \in C18_Terminal /\ lastOp'.call = c]_vars

\* call 1 has failed and is over while call 2 is still awaiting
C18_Witness ==
    /\ lastOp.op = "fetchFailure" /\ lastOp.call = 1
    /\ fetch[1] = "idle"
    /\ fetch[2] = "awaiting"
    /\ error = "Server error"

\* C19: right after a failed fetchProfiles, error is the message of the
\* failure response when the response carries a non-empty one and the
\* fallback "Failed to fetch profiles" otherwise; it is never null,
\* undefined or empty.
C19_ErrorIsMessageOrFallback ==
    lastOp.op = "fetchFailure" =>
        /\ lastOp.message \notin {Undefined, ""} => error = lastOp.message
        /\ lastOp.message \in {Undefined, ""} => error = "Failed to fetch profiles"
        /\ error \notin {Null, Undefined, ""}

\* the response carried "Server error"
C19_Witness ==
    /\ lastOp.op = "fetchFailure"
    /\ lastOp.message = "Server error"
    /\ error = "Server error"
    /\ isLoading = FALSE

\* the response carried an empty message
C19_WitnessEmpty ==
    /\ lastOp.op = "fetchFailure"
    /\ lastOp.message = ""
    /\ error = "Failed to fetch profiles"

\* C20: once addLike(id) or addDislike(id) has been applied, id stays in
\* likes or dislikes and no profile with that id is in the filtered list,
\* in every later state, whatever addLike, addDislike, fetchProfiles (and
\* its resolution), setProfiles and updateProfile do afterwards.
C20_Rated(l, d) == Range(l) \cup Range(d)

C20_Adds == {"addLike", "addDislike"}

C20_RatedStaysHidden ==
    [][\A id \in Ids :
          (\/ id \in C20_Rated(likes, dislikes)
           \/ (lastOp'.op \in C20_Adds /\ lastOp'.id = id))
            => /\ id \in C20_Rated(likes', dislikes')
               /\ id \notin IdsOf(filteredProfiles(profiles', likes', dislikes'))
      ]_vars

\* A is disliked and a later fetch has delivered A again: nothing is shown
C20_Witness ==
    /\ lastOp.op = "fetchSuccess"
    /\ lastOp.data = <<PAX>>
    /\ profiles = <<PAX>>
    /\ dislikes = <<"A">>
    /\ filteredProfiles(profiles, likes, dislikes) = <<>>

ProfileOps ==
    {"fetchStart", "fetchSuccess", "fetchFailure", "setProfiles", "updateProfile"}

\* C21: the two stores are isolated: a step of addLike, removeLike,
\* addDislike or removeDislike leaves profiles, isLoading and error as they
\* were, and a step of fetchProfiles, setProfiles or updateProfile leaves
\* likes and dislikes as they were
C21_StoresIsolated ==
    [][/\ lastOp'.op \in UserOps =>
            /\ profiles' = profiles
            /\ isLoading' = isLoading
            /\ error' = error
       /\ lastOp'.op \in ProfileOps =>
            /\ likes' = likes
            /\ dislikes' = dislikes]_vars

\* a liked profile is still in the authoritative list while a call is loading
C21_Witness ==
    /\ lastOp.op = "addLike"
    /\ lastOp.id = "A"
    /\ likes = <<"A">>
    /\ profiles = <<PAX>>
    /\ isLoading = TRUE
    /\ error = Null

InFlight == \E c \in Calls : fetch[c] = "awaiting"

\* C22: in every state with a fetchProfiles call in flight, setProfiles,
\* updateProfile and the four preference operations are enabled for every
\* argument and their step writes at once the result it writes when no call
\* is in flight (the given list, the patched list, the id moved into or out
\* of its array), the call staying in flight
C22_NotDeferredWhileInFlight ==
    InFlight =>
        /\ \A list \in ListsUpTo(MaxScreen) :
            ENABLED (SetProfiles(list) /\ profiles' = list /\ fetch' = fetch)
        /\ \A id \in Ids, update \in Updates :
            ENABLED (/\ UpdateProfile(id, update)
                     /\ Len(profiles') = Len(profiles)
                     /\ \A i \in DOMAIN profiles :
                            profiles'[i] = IF profiles[i].id = id
                                           THEN Spread(profiles[i], update)
                                           ELSE profiles[i]
                     /\ fetch' = fetch)
        /\ \A id \in Ids :
            /\ ENABLED (/\ AddLike(id)
                        /\ id \in Range(likes')
                        /\ id \notin Range(dislikes')
                        /\ fetch' = fetch)
            /\ ENABLED (/\ AddDislike(id)
                        /\ id \in Range(dislikes')
                        /\ id \notin Range(likes')
                        /\ fetch' = fetch)
            /\ ENABLED (/\ RemoveLike(id)
                        /\ id \notin Range(likes')
                        /\ dislikes' = dislikes
                        /\ fetch' = fetch)
            /\ ENABLED (/\ RemoveDislike(id)
                        /\ id \notin Range(dislikes')
                        /\ likes' = likes
                        /\ fetch' = fetch)

\* a patch landed while the call was still awaiting its response
C22_Witness ==
    /\ InFlight
    /\ isLoading = TRUE
    /\ lastOp.op = "updateProfile"
    /\ lastOp.id = "A"
    /\ lastOp.update = [name |-> "Y"]
    /\ profiles = <<PAY>>

\* C23: the step that invokes fetchProfiles sets isLoading to true and error
\* to null, whatever error an earlier failure left, and leaves profiles as
\* they were; with fetchProfiles the only operation, profiles then change
\* only at a terminal transition
C23_StartSetsLoadingClearsError ==
    [][/\ lastOp'.op = "fetchStart" =>
            /\ isLoading' = TRUE
            /\ error' = Null
            /\ profiles' = profiles
       /\ profiles' # profiles => lastOp'.op = "fetchSuccess"]_vars

\* a call has just started over the list an earlier call had fetched
C23_Witness ==
    /\ lastOp.op = "fetchStart"
    /\ lastOp.call = 2
    /\ fetch[1] = "idle"
    /\ isLoading = TRUE
    /\ error = Null
    /\ profiles = <<PAX, PBY>>

\* C24: only a failing fetchProfiles makes error non-null: a step that
\* changes error is the start of a call, which writes null, or a failure
\* transition; setProfiles, updateProfile and the preference operations leave
\* error as it was, and so does a success; hence whenever error is not null
\* its last write was a failure transition
C24_OnlyFailureSetsError ==
    [][/\ error' # error => lastOp'.op \in {"fetchStart", "fetchFailure"}
       /\ (error' # error /\ error' # Null) => lastOp'.op = "fetchFailure"
       /\ lastOp'.op \in UserOps \cup {"setProfiles", "updateProfile"} =>
            error' = error]_vars

\* the error of a failed call is still there after a patch and a like
C24_Witness ==
    /\ error = "Server error"
    /\ lastOp.op = "addLike"
    /\ profiles = <<PAY>>
    /\ \A c \in Calls : fetch[c] = "idle"

\* C25: a step of updateProfile changes at most one element of the list,
\* whatever list the store holds, a list with a repeated id included
C25_UpdateChangesAtMostOne ==
    [][lastOp'.op = "updateProfile" =>
        /\ Len(profiles') = Len(profiles)
        /\ Cardinality({i \in DOMAIN profiles : profiles'[i] # profiles[i]}) <= 1]_vars

NoRepeat(arr) == \A i, j \in DOMAIN arr : arr[i] = arr[j] => i = j

\* C26: in every state reached from the empty initial state by addLike,
\* removeLike, addDislike and removeDislike in any order, no id occurs twice
\* in likes and no id occurs twice in dislikes
C26_NoIdTwice == NoRepeat(likes) /\ NoRepeat(dislikes)

\* the same id was disliked twice in a row and is in dislikes once
C26_Witness ==
    /\ lastOp.op = "addDislike"
    /\ lastOp.prevOp = "addDislike"
    /\ lastOp.id = "C"
    /\ lastOp.prevId = "C"
    /\ dislikes = <<"A", "C">>
    /\ likes = <<"B">>

\* C27: in every state with no fetchProfiles call in flight (the initial
\* state, and any state after all started calls have resolved, in whatever
\* order), isLoading is false
C27_IdleImpliesNotLoading ==
    (\A c \in Calls : fetch[c] # "awaiting") => isLoading = FALSE

\* two overlapping calls have both resolved, the first started one last
C27_Witness ==
    /\ \A c \in Calls : fetch[c] = "idle"
    /\ lastOp.op = "fetchFailure"
    /\ lastOp.call = 1
    /\ profiles = <<PBX, PAY>>
    /\ isLoading = FALSE

\* C28: a successful fetchProfiles overwrites the whole list: after its
\* terminal transition profiles holds one record per id of the payload, each
\* the last payload record with that id, whatever setProfiles or
\* updateProfile did while the call was in flight; a record held before the
\* transition that the payload does not carry is gone
C28_SuccessOverwritesList ==
    [][lastOp'.op = "fetchSuccess" =>
        LET data == lastOp'.data
        IN  /\ IdsOf(profiles') = IdsOf(data)
            /\ Len(profiles') = Cardinality(IdsOf(data))
            /\ \A i \in DOMAIN profiles' :
                profiles'[i] = data[LastIndex(data, profiles'[i].id)]
            /\ \A p \in Range(profiles) \ Range(data) :
                p \notin Range(profiles')]_vars

\* call 1 resolved with its payload while call 2 is still awaiting: the
\* list is the payload
C28_Witness ==
    /\ lastOp.op = "fetchSuccess"
    /\ lastOp.call = 1
    /\ lastOp.data = <<PAX, PBX>>
    /\ profiles = <<PAX, PBX>>
    /\ fetch[1] = "idle"
    /\ fetch[2] = "awaiting"

\* C29: when every issued request eventually resolves or rejects, every
\* state with isLoading true is eventually followed by a state with
\* isLoading false; and the store has no timeout or cancellation: only a
\* terminal transition of a call takes isLoading from true to false
C29_LoadingEventuallyEnds ==
    /\ (isLoading = TRUE) ~> (isLoading = FALSE)
    /\ [][(isLoading = TRUE /\ isLoading' = FALSE) =>
            lastOp'.op \in {"fetchSuccess", "fetchFailure"}]_vars

\* both overlapping calls have settled and loading has ended
C29_Witness ==
    /\ isLoading = FALSE
    /\ \A c \in Calls : fetch[c] = "idle"
    /\ lastOp.op = "fetchSuccess"
    /\ lastOp.call = 2
    /\ error = Fallback

SameMembership(s, t) ==
    /\ Range(s.likes) = Range(t.likes)
    /\ Range(s.dislikes) = Range(t.dislikes)

InNeither(s, id) == id \notin Range(s.likes) \cup Range(s.dislikes)

\* addLike(id) then removeLike(id) from state s
LikeThenUnlike(s, id) ==
    LET s1 == set(s, addLike(s, id))
    IN  set(s1, removeLike(s1, id))

\* addDislike(id) then removeDislike(id) from state s
DislikeThenUndo(s, id) ==
    LET s1 == set(s, addDislike(s, id))
    IN  set(s1, removeDislike(s1, id))

\* C30: from every reachable state, addLike(id) followed by removeLike(id)
\* gives back the likes and dislikes membership it started from exactly when
\* id was in neither array, and when id was in dislikes it ends in neither
\* array; the same for addDislike(id) followed by removeDislike(id) with
\* likes; and a removeLike(id) step taken right after addLike(id), or a
\* removeDislike(id) step right after addDislike(id), leaves id in neither
\* array and every other id where it was
C30_AddThenRemove ==
    [][/\ \A id \in UserIds :
            /\ SameMembership(LikeThenUnlike(UserState, id), UserState)
                   <=> InNeither(UserState, id)
            /\ includes(dislikes, id) =>
                   InNeither(LikeThenUnlike(UserState, id), id)
            /\ SameMembership(DislikeThenUndo(UserState, id), UserState)
                   <=> InNeither(UserState, id)
            /\ includes(likes, id) =>
                   InNeither(DislikeThenUndo(UserState, id), id)
       /\ (\/ lastOp.op = "addLike" /\ lastOp'.op = "removeLike"
           \/ lastOp.op = "addDislike" /\ lastOp'.op = "removeDislike")
          /\ lastOp'.id = lastOp.id =>
            /\ lastOp.id \notin Range(likes') \cup Range(dislikes')
            /\ Range(likes') = Range(likes) \ {lastOp.id}
            /\ Range(dislikes') = Range(dislikes) \ {lastOp.id}]_vars

\* C was liked and then unliked: it is in neither array, the others where
\* they were
C30_Witness ==
    /\ lastOp.op = "removeLike"
    /\ lastOp.prevOp = "addLike"
    /\ lastOp.id = "C"
    /\ lastOp.prevId = "C"
    /\ likes = <<"A">>
    /\ dislikes = <<"B">>

=============================================================================
